---- MODULE Spec2Model ----
(***************************************************************************)
(* ssds.blobstore: the multipart chunk-size policy, the part readers       *)
(* (S3AsyncPartIterator, LocalAsyncPartIterator) and the multipart writer  *)
(* (S3MultipartWriter).                                                    *)
(*                                                                         *)
(* Byte counts are scaled: TLC's integers are 32 bits wide and the         *)
(* source's 10000 * 64 * 1024 ** 2 does not fit.  MiB and the maximum part *)
(* count are therefore set by the bounds BytesPerMiB and MaxPartsLimit;    *)
(* every other number is the source's.                                     *)
(***************************************************************************)
EXTENDS Integers, Sequences, FiniteSets, TLC

\* ------------------------------------------------------------------ bounds
BytesPerMiB == 2
MaxPartsLimit == 4
MaxPuts == 5
MaxPartCount == 3

\* --------------------------------------------------------------- constants
MiB == BytesPerMiB
AWS_MIN_CHUNK_SIZE == 64 * MiB
AWS_MAX_MULTIPART_COUNT == MaxPartsLimit
parts_to_buffer == 2
concurrent_uploads == 4

MaxSize == 2 * AWS_MAX_MULTIPART_COUNT * AWS_MIN_CHUNK_SIZE + MiB + 1

\* ----------------------------------------------------------------- helpers
\* math.ceil(a / b) for a >= 0, b > 0.  Python divides in floating point; the
\* quotient's ceiling is exact while a < 2 ** 53, which covers every value here.
ceil(a, b) == (a + b - 1) \div b

Min(a, b) == IF a <= b THEN a ELSE b

Range(s) == {s[i] : i \in DOMAIN s}

\* ------------------------------------------------------- chunk-size policy
\* get_s3_multipart_chunk_size with filesize // AWS_MAX_MULTIPART_COUNT for the ceil
ChunkSizeFloorDivision(filesize) ==
    IF filesize <= AWS_MAX_MULTIPART_COUNT * AWS_MIN_CHUNK_SIZE
    THEN AWS_MIN_CHUNK_SIZE
    ELSE (((filesize \div AWS_MAX_MULTIPART_COUNT) + MiB - 1) \div MiB) * MiB

\* get_s3_multipart_chunk_size rounding down to a whole MiB instead of up
ChunkSizeRoundDown(filesize) ==
    IF filesize <= AWS_MAX_MULTIPART_COUNT * AWS_MIN_CHUNK_SIZE
    THEN AWS_MIN_CHUNK_SIZE
    ELSE (ceil(filesize, AWS_MAX_MULTIPART_COUNT) \div MiB) * MiB

get_s3_multipart_chunk_size(filesize) ==
    IF filesize <= AWS_MAX_MULTIPART_COUNT * AWS_MIN_CHUNK_SIZE
    THEN AWS_MIN_CHUNK_SIZE
    ELSE LET raw_part_size == ceil(filesize, AWS_MAX_MULTIPART_COUNT)
             part_size_in_integer_megabytes ==
                 ((raw_part_size + MiB - 1) \div MiB) * MiB
         IN  part_size_in_integer_megabytes

\* S3AsyncPartIterator.__init__: self._number_of_parts
S3NumberOfParts(sz, chunk) == ceil(sz, chunk)

\* LocalAsyncPartIterator.__init__: self._number_of_parts
LocalNumberOfParts(sz, chunk) == IF 0 < sz THEN ceil(sz, chunk) ELSE 1

\* ------------------------------------------------------------------- state
VARIABLES
    size,            \* content_length of the object / os.path.getsize of the file
    s3it,            \* S3AsyncPartIterator: size, chunk_size, _number_of_parts
    localit,         \* LocalAsyncPartIterator: size, chunk_size, _number_of_parts
    rpc,             \* position of the S3AsyncPartIterator.__iter__ generator
    futures,         \* __iter__'s local set of futures, each named by its part number
    part_numbers,    \* __iter__'s local list of part numbers not yet submitted
    submitted,       \* part numbers ever handed to self._executor.submit
    fetch_done,      \* fetch tasks (_get_part) that have returned a Part
    fetch_failed,    \* fetch tasks (_get_part) that have raised
    yielded,         \* Parts the S3 generator has yielded, in order
    lpc,             \* position of the LocalAsyncPartIterator.__iter__ generator
    lnext,           \* the local generator's next part_number
    lyielded,        \* Parts the local generator has yielded, in order
    part_count,      \* number of parts of the transfer the writer's caller performs
    order,           \* the order in which the caller passes the transfer's parts
    _executor,       \* S3MultipartWriter._executor is set
    parts,           \* S3MultipartWriter.parts
    _closed,         \* S3MultipartWriter._closed
    _futures,        \* S3MultipartWriter._futures, each named by its index in uploads
    wpc,             \* where the coordinating thread is: idle, or blocked in a call
    pending,         \* part number of the put_part call blocked in as_completed
    waited,          \* futures that close()'s as_completed has handed to _wait
    uploads,         \* _put_part runs, in submission order: PartNumber and state
    complete_log,    \* MultipartUpload.Parts of each complete_multipart_upload call
    nputs,           \* put_part calls made
    last,            \* the latest call of the writer's caller and how it ended
    raised_any       \* some call of the writer's caller has raised

rvars == <<size, s3it, localit, rpc, futures, part_numbers, submitted, fetch_done,
           fetch_failed, yielded, lpc, lnext, lyielded>>
wvars == <<part_count, order, _executor, parts, _closed, _futures, wpc, pending, waited,
           uploads, complete_log, nputs, last, raised_any>>
vars == <<rvars, wvars>>

\* AsyncPartIterator.__init__: the fields before a subclass constructor sets them
NoIterator == [size |-> 0, chunk_size |-> 0, number_of_parts |-> 0]

\* Part(number, data): data is the object's bytes lo .. hi - 1
Part(number, lo, hi) == [number |-> number, lo |-> lo, hi |-> hi]

ReaderIdle ==
    /\ s3it = NoIterator /\ localit = NoIterator
    /\ rpc = "new" /\ futures = {} /\ part_numbers = <<>> /\ submitted = {}
    /\ fetch_done = {} /\ fetch_failed = {} /\ yielded = <<>>
    /\ lpc = "new" /\ lnext = 0 /\ lyielded = <<>>

WriterIdle ==
    /\ part_count = 1 /\ order = <<0>> /\ _executor = FALSE /\ parts = <<>> /\ _closed = FALSE
    /\ _futures = {} /\ wpc = "idle" /\ pending = -1 /\ waited = {}
    /\ uploads = <<>> /\ complete_log = <<>> /\ nputs = 0
    /\ last = [op |-> "none", raised |-> FALSE]
    /\ raised_any = FALSE

\* ------------------------------------------------------------ part readers
\* S3AsyncPartIterator.__init__
S3Init ==
    /\ rpc = "new"
    /\ LET chunk == get_s3_multipart_chunk_size(size)
       IN  s3it' = [size |-> size, chunk_size |-> chunk,
                    number_of_parts |-> S3NumberOfParts(size, chunk)]
    /\ rpc' = "ready"
    /\ UNCHANGED <<size, localit, futures, part_numbers, submitted, fetch_done,
                   fetch_failed, yielded, lpc, lnext, lyielded>>
    /\ UNCHANGED wvars

\* LocalAsyncPartIterator.__init__
LocalInit ==
    /\ lpc = "new"
    /\ LET chunk == get_s3_multipart_chunk_size(size)
       IN  localit' = [size |-> size, chunk_size |-> chunk,
                       number_of_parts |-> LocalNumberOfParts(size, chunk)]
    /\ lpc' = "ready"
    /\ UNCHANGED <<size, s3it, rpc, futures, part_numbers, submitted, fetch_done,
                   fetch_failed, yielded, lnext, lyielded>>
    /\ UNCHANGED wvars

\* S3GetPart asking for bytes=offset-(offset + chunk_size): one byte too many
S3GetPartInclusiveEnd(part_number) ==
    LET offset == part_number * s3it.chunk_size
    IN  Part(part_number, Min(offset, s3it.size),
             Min(offset + s3it.chunk_size + 1, s3it.size))

\* S3AsyncPartIterator._get_part: a ranged GET returns the bytes of
\* offset .. offset + chunk_size - 1 that the object has
S3GetPart(part_number) ==
    LET offset == part_number * s3it.chunk_size
    IN  Part(part_number, Min(offset, s3it.size),
             Min(offset + s3it.chunk_size, s3it.size))

\* LocalAsyncPartIterator._get_part: seek, then read up to chunk_size bytes
LocalGetPart(part_number) ==
    LET offset == part_number * localit.chunk_size
    IN  Part(part_number, Min(offset, localit.size),
             Min(offset + localit.chunk_size, localit.size))

\* LocalAsyncPartIterator.__iter__, one next() of the consumer
LocalNext ==
    /\ lpc = "ready"
    /\ IF lnext < localit.number_of_parts
       THEN /\ lyielded' = Append(lyielded, LocalGetPart(lnext))
            /\ lnext' = lnext + 1
            /\ lpc' = lpc
       ELSE /\ lpc' = "done"
            /\ UNCHANGED <<lnext, lyielded>>
    /\ UNCHANGED <<size, s3it, localit, rpc, futures, part_numbers, submitted,
                   fetch_done, fetch_failed, yielded>>
    /\ UNCHANGED wvars

\* ---------------------------------------------- S3AsyncPartIterator.__iter__
\* range(self._number_of_parts) as a list
RangeList(n) == [i \in 1 .. n |-> i - 1]

\* part_numbers[:k]
Take(s, k) == SubSeq(s, 1, Min(k, Len(s)))

\* Drop slicing one element too far: part_numbers[k + 1:]
DropOneMore(s, k) == SubSeq(s, Min(k, Len(s)) + 2, Len(s))

\* part_numbers[k:]
Drop(s, k) == SubSeq(s, Min(k, Len(s)) + 1, Len(s))

\* NumberOfPartsToFetch refilling by the whole window whatever is in flight
NumberOfPartsToFetchFullWindow(futs) == parts_to_buffer

\* number_of_parts_to_fetch, or 0 when the window is full
NumberOfPartsToFetch(futs) ==
    IF Cardinality(futs) < parts_to_buffer
    THEN parts_to_buffer - Cardinality(futs)
    ELSE 0

RUnchangedLocal == UNCHANGED <<size, s3it, localit, lpc, lnext, lyielded>>

\* if 1 == self._number_of_parts: yield self._get_part(0), fetched in the
\* consumer's own thread; the next() after it ends the generator
ReaderNextSingle ==
    /\ IF rpc = "ready"
       THEN \/ /\ yielded' = Append(yielded, S3GetPart(0))
               /\ rpc' = "yielded"
               /\ UNCHANGED fetch_failed
            \/ /\ fetch_failed' = fetch_failed \cup {0}
               /\ rpc' = "failed"
               /\ UNCHANGED yielded
       ELSE /\ rpc' = "done"
            /\ UNCHANGED <<yielded, fetch_failed>>
    /\ UNCHANGED <<futures, submitted, part_numbers>>

\* else: the while loop, from its test to the point where it blocks in
\* as_completed(futures); the first next() also builds part_numbers
ReaderNextWindow ==
    LET todo == IF rpc = "ready"
                THEN RangeList(s3it.number_of_parts)
                ELSE part_numbers
        k == NumberOfPartsToFetch(futures)
    IN  /\ IF todo # <<>> \/ futures # {}
           THEN /\ futures' = futures \cup Range(Take(todo, k))
                /\ submitted' = submitted \cup Range(Take(todo, k))
                /\ part_numbers' = Drop(todo, k)
                /\ rpc' = "waiting"
           ELSE /\ rpc' = "done"
                /\ part_numbers' = todo
                /\ UNCHANGED <<futures, submitted>>
        /\ UNCHANGED <<yielded, fetch_failed>>

\* The consumer's next() on a generator that has not run yet or is suspended at
\* a yield
ReaderNext ==
    /\ rpc \in {"ready", "yielded"}
    /\ IF s3it.number_of_parts = 1 THEN ReaderNextSingle ELSE ReaderNextWindow
    /\ UNCHANGED fetch_done
    /\ RUnchangedLocal
    /\ UNCHANGED wvars

\* A fetch task (_get_part in a pool thread) returns its Part
FetchDone(n) ==
    /\ n \in submitted \ (fetch_done \cup fetch_failed)
    /\ fetch_done' = fetch_done \cup {n}
    /\ UNCHANGED <<rpc, futures, part_numbers, submitted, fetch_failed, yielded>>
    /\ RUnchangedLocal
    /\ UNCHANGED wvars

\* A fetch task raises
FetchFail(n) ==
    /\ n \in submitted \ (fetch_done \cup fetch_failed)
    /\ fetch_failed' = fetch_failed \cup {n}
    /\ UNCHANGED <<rpc, futures, part_numbers, submitted, fetch_done, yielded>>
    /\ RUnchangedLocal
    /\ UNCHANGED wvars

\* ReaderYield catching the exception of f.result() and going on with the loop
ReaderYieldSkipsFailure(n) ==
    /\ rpc = "waiting"
    /\ n \in futures
    /\ \/ /\ n \in fetch_done
          /\ yielded' = Append(yielded, S3GetPart(n))
       \/ /\ n \in fetch_failed
          /\ UNCHANGED yielded
    /\ futures' = futures \ {n}
    /\ rpc' = "yielded"
    /\ UNCHANGED <<part_numbers, submitted, fetch_done, fetch_failed>>
    /\ RUnchangedLocal
    /\ UNCHANGED wvars

\* as_completed(futures) hands over a finished future f: f.result() raises, or
\* the future is removed and its Part yielded
ReaderYield(n) ==
    /\ rpc = "waiting"
    /\ n \in futures
    /\ \/ /\ n \in fetch_done
          /\ futures' = futures \ {n}
          /\ yielded' = Append(yielded, S3GetPart(n))
          /\ rpc' = "yielded"
       \/ /\ n \in fetch_failed
          /\ rpc' = "failed"
          /\ UNCHANGED <<futures, yielded>>
    /\ UNCHANGED <<part_numbers, submitted, fetch_done, fetch_failed>>
    /\ RUnchangedLocal
    /\ UNCHANGED wvars

\* The consumer drops the generator without exhausting it
ReaderStop ==
    /\ rpc \in {"ready", "yielded"}
    /\ rpc' = "stopped"
    /\ UNCHANGED <<futures, part_numbers, submitted, fetch_done, fetch_failed, yielded>>
    /\ RUnchangedLocal
    /\ UNCHANGED wvars

\* ------------------------------------------------------- S3MultipartWriter
WUnchangedReader == UNCHANGED rvars

\* Every ordering of the set S, as sequences
Orderings(S) == {p \in [1 .. Cardinality(S) -> S] : Range(p) = S}

\* Future.done()
FutureDone(f) == uploads[f].state # "running"

\* _put_part as submitted: the upload_part request with its one-based PartNumber
UploadRequest(number, state) == [PartNumber |-> number + 1, state |-> state]

\* _put_part's return value for the upload f: the ETag of its response (one
\* per upload_part call) and the one-based PartNumber
Receipt(f) == [ETag |-> f, PartNumber |-> uploads[f].PartNumber]

ReceiptsOf(p) == [i \in DOMAIN p |-> Receipt(p[i])]

\* CollectParts without self._futures.remove(f): collected futures stay
CollectPartsKeepsFutures(ps, futs) ==
    IF ~_executor
    THEN {[parts |-> ps, futures |-> futs, raised |-> FALSE]}
    ELSE LET ok  == {f \in futs : uploads[f].state = "ok"}
             bad == {f \in futs : uploads[f].state = "failed"}
         IN  IF bad = {}
             THEN {[parts |-> ps \o ReceiptsOf(p), futures |-> futs,
                    raised |-> FALSE] : p \in Orderings(ok)}
             ELSE {[parts |-> ps \o ReceiptsOf(p), futures |-> futs,
                    raised |-> TRUE] :
                       p \in UNION {Orderings(S) : S \in SUBSET ok}}

\* CollectParts stopping after the first finished future it meets
CollectPartsFirstOnly(ps, futs) ==
    IF ~_executor
    THEN {[parts |-> ps, futures |-> futs, raised |-> FALSE]}
    ELSE LET ok  == {f \in futs : uploads[f].state = "ok"}
             bad == {f \in futs : uploads[f].state = "failed"}
         IN  {[parts |-> ps \o ReceiptsOf(<<f>>), futures |-> futs \ {f},
               raised |-> FALSE] : f \in ok}
             \cup {[parts |-> ps, futures |-> futs, raised |-> bad # {}] :
                      x \in {y \in {0} : ok = {} \/ bad # {}}}

\* _collect_parts on the receipt list ps and the future set futs: every way it
\* can end.  It walks a copy of the set in the set's own order, appends the
\* result of each finished future and removes it; result() of a failed future
\* raises, leaving that future and those not yet visited in the set.
CollectParts(ps, futs) ==
    IF ~_executor
    THEN {[parts |-> ps, futures |-> futs, raised |-> FALSE]}
    ELSE LET ok  == {f \in futs : uploads[f].state = "ok"}
             bad == {f \in futs : uploads[f].state = "failed"}
         IN  IF bad = {}
             THEN {[parts |-> ps \o ReceiptsOf(p), futures |-> futs \ ok,
                    raised |-> FALSE] : p \in Orderings(ok)}
             ELSE {[parts |-> ps \o ReceiptsOf(p), futures |-> futs \ Range(p),
                    raised |-> TRUE] :
                       p \in UNION {Orderings(S) : S \in SUBSET ok}}

\* LimitReached comparing with < for <=
LimitReachedOffByOne(futs) == concurrent_uploads < Cardinality(futs)

\* put_part's test before as_completed: the concurrency limit is reached
LimitReached(futs) == concurrent_uploads <= Cardinality(futs)

\* put_part with an executor, from _collect_parts on
PutPartSubmit(number) ==
    /\ \E c \in CollectParts(parts, _futures) :
          /\ parts' = c.parts
          /\ IF c.raised
             THEN /\ _futures' = c.futures
                  /\ UNCHANGED uploads
             ELSE /\ uploads' = Append(uploads, UploadRequest(number, "running"))
                  /\ _futures' = c.futures \cup {Len(uploads) + 1}
          /\ last' = [op |-> "put_part", raised |-> c.raised]
          /\ raised_any' = (raised_any \/ c.raised)
    /\ wpc' = "idle"
    /\ pending' = -1

\* put_part without an executor: self.parts.append(self._put_part(part))
PutPartSync(number) ==
    /\ \E ok \in BOOLEAN :
          /\ uploads' = Append(uploads,
                               UploadRequest(number, IF ok THEN "ok" ELSE "failed"))
          /\ parts' = IF ok
                      THEN Append(parts, [ETag |-> Len(uploads) + 1,
                                          PartNumber |-> number + 1])
                      ELSE parts
          /\ last' = [op |-> "put_part", raised |-> ~ok]
          /\ raised_any' = (raised_any \/ ~ok)
    /\ UNCHANGED <<_futures, wpc, pending>>

\* The part number of the caller's next put_part: the transfer's parts in the
\* caller's order, and after the last of them the same parts again
NextPartNumber == order[(nputs % part_count) + 1]

\* The caller calls put_part(Part(number, data))
PutPart ==
    /\ wpc = "idle"
    /\ nputs < MaxPuts
    /\ nputs' = nputs + 1
    /\ IF _executor
       THEN IF LimitReached(_futures) /\ ~\E f \in _futures : FutureDone(f)
            THEN \* blocked in as_completed(self._futures)
                 /\ wpc' = "put_wait"
                 /\ pending' = NextPartNumber
                 /\ UNCHANGED <<parts, _futures, uploads, last, raised_any>>
            ELSE PutPartSubmit(NextPartNumber)
       ELSE PutPartSync(NextPartNumber)
    /\ UNCHANGED <<part_count, order, _executor, _closed, waited, complete_log>>
    /\ WUnchangedReader

\* as_completed(self._futures) in put_part hands over a finished future
PutPartResume ==
    /\ wpc = "put_wait"
    /\ \E f \in _futures : FutureDone(f)
    /\ PutPartSubmit(pending)
    /\ UNCHANGED <<part_count, order, _executor, _closed, waited, complete_log, nputs>>
    /\ WUnchangedReader

\* UploadDone with the pool thread appending its own receipt to self.parts
UploadDoneAppends(f) ==
    /\ f \in DOMAIN uploads
    /\ uploads[f].state = "running"
    /\ uploads' = [uploads EXCEPT ![f].state = "ok"]
    /\ parts' = parts \o <<Receipt(f)>>
    /\ UNCHANGED <<part_count, order, _executor, _closed, _futures, wpc, pending,
                   waited, complete_log, nputs, last, raised_any>>
    /\ WUnchangedReader

\* A pool thread's _put_part returns: upload_part answered
UploadDone(f) ==
    /\ f \in DOMAIN uploads
    /\ uploads[f].state = "running"
    /\ uploads' = [uploads EXCEPT ![f].state = "ok"]
    /\ UNCHANGED <<part_count, order, _executor, parts, _closed, _futures, wpc, pending,
                   waited, complete_log, nputs, last, raised_any>>
    /\ WUnchangedReader

\* A pool thread's _put_part raises: upload_part failed
UploadFail(f) ==
    /\ f \in DOMAIN uploads
    /\ uploads[f].state = "running"
    /\ uploads' = [uploads EXCEPT ![f].state = "failed"]
    /\ UNCHANGED <<part_count, order, _executor, parts, _closed, _futures, wpc, pending,
                   waited, complete_log, nputs, last, raised_any>>
    /\ WUnchangedReader

\* r placed behind the receipts of s whose PartNumber is not greater
RECURSIVE InsertByPartNumber(_, _)
InsertByPartNumber(r, s) ==
    IF s = <<>> THEN <<r>>
    ELSE IF s[Len(s)].PartNumber <= r.PartNumber
         THEN Append(s, r)
         ELSE Append(InsertByPartNumber(r, SubSeq(s, 1, Len(s) - 1)), s[Len(s)])

\* SortByPartNumber left out: the receipts in the order they were collected
NotSorted(s) == s

\* self.parts.sort(key=lambda item: item['PartNumber']), a stable sort
RECURSIVE SortByPartNumber(_)
SortByPartNumber(s) ==
    IF s = <<>> THEN <<>>
    ELSE InsertByPartNumber(s[Len(s)], SortByPartNumber(SubSeq(s, 1, Len(s) - 1)))

\* close() after _wait: _collect_parts, the sort and complete_multipart_upload
CloseFinalize ==
    /\ \E c \in CollectParts(parts, _futures) :
          /\ _futures' = c.futures
          /\ IF c.raised
             THEN /\ parts' = c.parts
                  /\ UNCHANGED complete_log
             ELSE /\ parts' = SortByPartNumber(c.parts)
                  /\ complete_log' = Append(complete_log, SortByPartNumber(c.parts))
          /\ last' = [op |-> "close", raised |-> c.raised]
          /\ raised_any' = (raised_any \/ c.raised)
    /\ wpc' = "idle"
    /\ waited' = {}

\* AlreadyClosed never true: close() without its guard
AlreadyClosedUnguarded == FALSE

\* close(): the negation of its guard, if not self._closed
AlreadyClosed == _closed

\* The caller calls close(), directly or through __exit__
Close ==
    /\ wpc = "idle"
    /\ IF AlreadyClosed
       THEN /\ last' = [op |-> "close", raised |-> FALSE]
            /\ UNCHANGED <<parts, _closed, _futures, wpc, waited, complete_log,
                           raised_any>>
       ELSE /\ _closed' = TRUE
            /\ IF _executor /\ _futures # {}
               THEN \* _wait: blocked in as_completed(self._futures)
                    /\ wpc' = "close_wait"
                    /\ waited' = {}
                    /\ UNCHANGED <<parts, _futures, complete_log, last, raised_any>>
               ELSE CloseFinalize
    /\ UNCHANGED <<part_count, order, _executor, pending, uploads, nputs>>
    /\ WUnchangedReader

\* _wait: as_completed hands over the finished future f and f.result() raises
\* or returns; after the last future close() goes on
CloseWait(f) ==
    /\ wpc = "close_wait"
    /\ f \in _futures \ waited
    /\ FutureDone(f)
    /\ IF uploads[f].state = "failed"
       THEN /\ wpc' = "idle"
            /\ waited' = {}
            /\ last' = [op |-> "close", raised |-> TRUE]
            /\ raised_any' = TRUE
            /\ UNCHANGED <<parts, _futures, complete_log>>
       ELSE IF waited \cup {f} = _futures
            THEN CloseFinalize
            ELSE /\ waited' = waited \cup {f}
                 /\ UNCHANGED <<parts, _futures, wpc, complete_log, last, raised_any>>
    /\ UNCHANGED <<part_count, order, _executor, _closed, pending, uploads, nputs>>
    /\ WUnchangedReader

\* ----------------------------------------------------------- specifications
Sizes == 0 .. MaxSize

InitChunk == size \in Sizes /\ ReaderIdle /\ WriterIdle

NextChunk == S3Init \/ LocalInit \/ LocalNext

SpecChunk == InitChunk /\ [][NextChunk]_vars

\* Sizes on a chunk boundary and one byte past it, and the largest size
ReaderSizes == {s \in Sizes : s % AWS_MIN_CHUNK_SIZE \in {0, 1}} \cup {MaxSize}

InitReader == size \in ReaderSizes /\ ReaderIdle /\ WriterIdle

PartNumbers == 0 .. AWS_MAX_MULTIPART_COUNT

NextReader ==
    \/ S3Init
    \/ LocalInit
    \/ LocalNext
    \/ ReaderNext
    \/ ReaderStop
    \/ \E n \in PartNumbers : FetchDone(n) \/ FetchFail(n) \/ ReaderYield(n)

SpecReader == InitReader /\ [][NextReader]_vars

\* S3MultipartWriter.__init__: a new session, with or without an executor
InitWriter ==
    /\ size = 0 /\ ReaderIdle
    /\ part_count \in 1 .. MaxPartCount
    /\ order \in Orderings(0 .. (part_count - 1))
    /\ _executor \in BOOLEAN
    /\ parts = <<>> /\ _closed = FALSE /\ _futures = {}
    /\ wpc = "idle" /\ pending = -1 /\ waited = {}
    /\ uploads = <<>> /\ complete_log = <<>> /\ nputs = 0
    /\ last = [op |-> "none", raised |-> FALSE]
    /\ raised_any = FALSE

UploadIds == 1 .. MaxPuts

NextWriter ==
    \/ PutPart
    \/ PutPartResume
    \/ Close
    \/ \E f \in UploadIds : UploadDone(f) \/ UploadFail(f) \/ CloseWait(f)

SpecWriter == InitWriter /\ [][NextWriter]_vars

\* The pool runs every submitted task to its end, a blocked as_completed returns
\* once a future has finished, and the consumer goes on asking for parts
FairSpecReader ==
    /\ SpecReader
    /\ WF_vars(S3Init)
    /\ WF_vars(ReaderNext)
    /\ \A n \in PartNumbers : WF_vars(FetchDone(n) \/ FetchFail(n))
    /\ \A n \in PartNumbers : WF_vars(ReaderYield(n))

\* ------------------------------------------------------------------ claims
Threshold == AWS_MAX_MULTIPART_COUNT * AWS_MIN_CHUNK_SIZE

YieldedNumbers == {yielded[i].number : i \in DOMAIN yielded}

NoDuplicates(s) == \A i, j \in DOMAIN s : s[i].number = s[j].number => i = j

\* C2: for every size >= 0 the part count of the S3 reader and of the local
\* reader is ceil(size / chunk_size(size)), except that size 0 gives 1 and the
\* reader then yields exactly one Part, numbered 0, with empty data.
C2_PartCountClaim ==
    LET expected == IF size = 0 THEN 1
                    ELSE ceil(size, get_s3_multipart_chunk_size(size))
    IN  /\ rpc # "new" => s3it.number_of_parts = expected
        /\ lpc # "new" => localit.number_of_parts = expected
        /\ (size = 0 /\ rpc = "done") => yielded = <<Part(0, 0, 0)>>
        /\ (size = 0 /\ lpc = "done") => lyielded = <<Part(0, 0, 0)>>

\* C3: for every size >= 0, parts of chunk_size(size) bytes, the last possibly
\* shorter, number at most AWS_MAX_MULTIPART_COUNT: that many chunks cover the
\* object, and the reader's part count is within the limit.
C3_AtMostMaxParts ==
    rpc # "new" =>
        /\ s3it.chunk_size > 0
        /\ AWS_MAX_MULTIPART_COUNT * s3it.chunk_size >= size
        /\ s3it.number_of_parts <= AWS_MAX_MULTIPART_COUNT

\* C3 witness: an object above the threshold that needs the full part count and
\* whose last part is shorter than the others
C3_Witness ==
    /\ rpc # "new"
    /\ size > Threshold
    /\ s3it.number_of_parts = AWS_MAX_MULTIPART_COUNT
    /\ size % s3it.chunk_size # 0

\* C4: chunk_size(size) is AWS_MIN_CHUNK_SIZE for size <= N_max * C_min; above
\* it is the smallest whole multiple of MiB that is >= ceil(size / N_max); two
\* computations for the same size give the same result.
C4_ChunkSizePolicy ==
    /\ rpc # "new" =>
          IF size <= Threshold
          THEN s3it.chunk_size = AWS_MIN_CHUNK_SIZE
          ELSE /\ s3it.chunk_size % MiB = 0
               /\ s3it.chunk_size * AWS_MAX_MULTIPART_COUNT >= size
               /\ (s3it.chunk_size - MiB) * AWS_MAX_MULTIPART_COUNT < size
    /\ (rpc # "new" /\ lpc # "new") => s3it.chunk_size = localit.chunk_size

\* C4 witness: above the threshold, where ceil(size / N_max) is not a whole
\* number of MiB and the rounding changes it
C4_Witness ==
    /\ rpc # "new" /\ lpc # "new"
    /\ size > Threshold
    /\ ceil(size, AWS_MAX_MULTIPART_COUNT) % MiB # 0
    /\ s3it.chunk_size > ceil(size, AWS_MAX_MULTIPART_COUNT)

\* C9: the fetch tasks submitted and not yet yielded never number more than
\* parts_to_buffer, and nothing is submitted before the consumer's first next().
C9_WindowBound ==
    /\ Cardinality(submitted \ YieldedNumbers) <= parts_to_buffer
    /\ rpc \in {"new", "ready"} => submitted = {}

\* C9 witness: a reader of three or more parts with a full window again after
\* it has yielded a part
C9_Witness ==
    /\ s3it.number_of_parts >= 3
    /\ Len(yielded) >= 1
    /\ Cardinality(submitted \ YieldedNumbers) = parts_to_buffer
    /\ fetch_done \cap futures # {}

\* C10: if no fetch fails and the consumer keeps iterating, every part number
\* in [0, part count) is eventually yielded, each once and no other number, and
\* the iteration then ends.
C10_AllPartsYieldedOnce ==
    /\ [](/\ NoDuplicates(yielded)
          /\ YieldedNumbers \subseteq 0 .. (s3it.number_of_parts - 1))
    /\ <>(\/ fetch_failed # {}
          \/ rpc = "stopped"
          \/ /\ rpc = "done"
             /\ YieldedNumbers = 0 .. (s3it.number_of_parts - 1)
             /\ Len(yielded) = s3it.number_of_parts)

\* C10 witness: a three-part object read to its end with no failure, the parts
\* yielded out of part-number order
C10_Witness ==
    /\ rpc = "done"
    /\ fetch_failed = {}
    /\ Len(yielded) = 3
    /\ yielded[1].number = 1
    /\ YieldedNumbers = {0, 1, 2}

FailedUploads == {f \in DOMAIN uploads : uploads[f].state = "failed"}

\* Upload tasks submitted whose receipt is not in the receipt list
Outstanding == {f \in DOMAIN uploads : \A i \in DOMAIN parts : parts[i].ETag # f}

Ascending(ps) ==
    \A i, j \in DOMAIN ps : i < j => ps[i].PartNumber <= ps[j].PartNumber

\* C1: close() never issues complete_multipart_upload when a part upload of the
\* writer has failed, with an executor or without one, also when __exit__ calls
\* it after put_part raised.
C1_NoFinalizeAfterFailedUpload ==
    [][complete_log' # complete_log => FailedUploads = {}]_vars

\* C5: with an executor, the upload tasks submitted and not yet collected never
\* number more than concurrent_uploads.
C5_OutstandingBound ==
    _executor =>
        /\ Cardinality(Outstanding) <= concurrent_uploads
        /\ Cardinality(_futures) <= concurrent_uploads

\* C5 witness: more put_part calls than the limit were accepted and the limit
\* is reached again
C5_Witness ==
    /\ _executor
    /\ Len(uploads) > concurrent_uploads
    /\ Cardinality(Outstanding) = concurrent_uploads

\* C6: the receipt list of every complete_multipart_upload call is in ascending
\* part-number order, whatever the order of the put_part calls and of the
\* uploads' completions.
C6_FinalizeAscending ==
    \A k \in DOMAIN complete_log : Ascending(complete_log[k])

\* C6 witness: three parts passed in reverse order, with an executor, and
\* finalized
C6_Witness ==
    /\ _executor
    /\ order = <<2, 1, 0>>
    /\ complete_log # <<>>
    /\ Len(complete_log[1]) >= 3

\* C7: complete_multipart_upload is issued only with a receipt for every part
\* number in [0, part_count).
C7_FinalizeOnlyAllParts ==
    \A k \in DOMAIN complete_log :
        \A n \in 0 .. (part_count - 1) :
            \E i \in DOMAIN complete_log[k] : complete_log[k][i].PartNumber = n + 1

\* C8: a close() call on a writer already closed changes nothing and raises
\* nothing, and complete_multipart_upload is issued at most once.
C8_CloseIdempotent ==
    /\ [][(_closed /\ wpc = "idle" /\ last' # last /\ last'.op = "close") =>
             /\ UNCHANGED <<parts, _closed, _futures, wpc, waited, uploads, complete_log>>
             /\ ~last'.raised]_vars
    /\ [](Len(complete_log) <= 1)

\* C8 witness: close() called again after the first close() raised for a failed
\* upload: it returns and nothing is finalized
C8_Witness ==
    /\ _closed
    /\ last = [op |-> "close", raised |-> FALSE]
    /\ complete_log = <<>>
    /\ FailedUploads # {}

\* C11: read to the end, the parts tile the object: part n holds the bytes
\* [n * chunk_size, min((n + 1) * chunk_size, size)), every part but the last
\* has chunk_size bytes, the last has 1 .. chunk_size, and sorted by number
\* they run from byte 0 to byte size with no gap (no part only when size is 0).
C11_RoundTrip ==
    rpc = "done" =>
        LET k == Len(yielded)
        IN  /\ NoDuplicates(yielded)
            /\ YieldedNumbers = 0 .. (k - 1)
            /\ \A i \in DOMAIN yielded :
                  LET p == yielded[i]
                  IN  /\ p.lo = p.number * s3it.chunk_size
                      /\ p.hi = Min((p.number + 1) * s3it.chunk_size, size)
                      /\ p.number < k - 1 => p.hi - p.lo = s3it.chunk_size
                      /\ p.number = k - 1 =>
                            /\ 1 <= p.hi - p.lo
                            /\ p.hi - p.lo <= s3it.chunk_size
                            /\ p.hi = size
            /\ k = 0 => size = 0

\* C11 witness: three or more parts read to the end out of part-number order,
\* the last part shorter than the others
C11_Witness ==
    /\ rpc = "done"
    /\ Len(yielded) >= 3
    /\ yielded[1].number # 0
    /\ size % s3it.chunk_size # 0

RunningUploads == {f \in DOMAIN uploads : uploads[f].state = "running"}

\* The step in which the first close() call returns or raises
FirstCloseEnds ==
    /\ wpc' = "idle"
    /\ \/ wpc = "close_wait"
       \/ wpc = "idle" /\ ~_closed /\ _closed'

\* C12: when the first close() returns or raises, no upload task of the
\* writer is still running, also when a task has failed.
C12_NoTaskRunningAfterClose ==
    [][FirstCloseEnds =>
          \A f \in DOMAIN uploads' : uploads'[f].state # "running"]_vars

StrictlyAscending(ps) ==
    \A i, j \in DOMAIN ps : i < j => ps[i].PartNumber < ps[j].PartNumber

\* C13: the receipt list of every complete_multipart_upload call is strictly
\* increasing by part number, whatever parts were passed to put_part, the
\* same part number more than once included.
C13_FinalizeStrictlyAscending ==
    \A k \in DOMAIN complete_log : StrictlyAscending(complete_log[k])

\* C14: a failed upload is not swallowed: once close() has been called on a
\* writer one of whose uploads has failed, a put_part call or the first close()
\* has raised.
C14_FailureRaised ==
    (wpc = "idle" /\ last.op = "close" /\ FailedUploads # {}) => raised_any

\* A step of a put_part call: the call itself, or its return from as_completed
PutPartStep == nputs' # nputs \/ wpc = "put_wait"

\* C20: once close() has been called, no put_part call sends an upload_part
\* request or changes the receipt list, and no upload_part follows the
\* session's complete_multipart_upload.
C20_NoUploadAfterClose ==
    [][/\ (_closed /\ PutPartStep) => (uploads' = uploads /\ parts' = parts)
       /\ complete_log # <<>> => Len(uploads') = Len(uploads)]_vars

\* C15: a failed fetch is raised to the consumer where its part would have
\* been yielded: the failed part is never yielded, the iteration never ends
\* normally past it, and a generator that has raised, or that its consumer has
\* dropped, submits no further fetch and yields nothing more.
C15_FailureStopsReader ==
    /\ [](/\ YieldedNumbers \cap fetch_failed = {}
          /\ rpc = "done" => fetch_failed = {}
          /\ rpc = "failed" => fetch_failed \ YieldedNumbers # {})
    /\ [][(rpc = "failed" \/ rpc = "stopped") =>
             UNCHANGED <<rpc, submitted, futures, part_numbers, yielded>>]_vars

\* C15 witness: a fetch failed and was raised after a part had been yielded,
\* with part numbers not yet submitted and a fetched part left in the window
C15_Witness ==
    /\ rpc = "failed"
    /\ Len(yielded) >= 1
    /\ part_numbers # <<>>
    /\ fetch_done \cap futures # {}

FailedIn(futs) == {f \in futs : uploads[f].state = "failed"}

\* A step in which an upload is handed to the executor
SubmitStep == Len(uploads') = Len(uploads) + 1

\* In a step that submits, at the limit a task had finished, and every
\* finished task has left the outstanding set for the receipt list
SubmitAfterCollect ==
    SubmitStep =>
        /\ Cardinality(_futures) >= concurrent_uploads =>
              \E f \in _futures : FutureDone(f)
        /\ \A f \in _futures :
              FutureDone(f) =>
                  /\ f \notin _futures'
                  /\ \E i \in DOMAIN parts' : parts'[i] = Receipt(f)

\* C16 as stated: with an executor and fewer than concurrent_uploads tasks
\* outstanding put_part submits the new upload without waiting; at the limit
\* it submits only after a task has completed; before submitting it moves
\* every completed task's receipt from the outstanding set to the receipt list.
C16_PutPartAlwaysSubmits ==
    [][_executor =>
          /\ (nputs' # nputs /\ Cardinality(_futures) < concurrent_uploads) =>
                (wpc' = "idle" /\ SubmitStep)
          /\ SubmitAfterCollect]_vars

\* C16 amended: as stated, except that a put_part call which finds a failed
\* task among the completed ones raises that failure and submits nothing; a
\* call at the limit with no task completed blocks.
C16_PutPartSubmitsOrRaises ==
    [][_executor =>
          /\ (nputs' # nputs /\ Cardinality(_futures) < concurrent_uploads) =>
                /\ wpc' = "idle"
                /\ IF FailedIn(_futures) = {}
                   THEN SubmitStep /\ ~last'.raised
                   ELSE uploads' = uploads /\ last'.raised
          /\ (/\ nputs' # nputs
              /\ Cardinality(_futures) >= concurrent_uploads
              /\ ~\E f \in _futures : FutureDone(f)) =>
                (wpc' = "put_wait" /\ uploads' = uploads /\ parts' = parts)
          /\ SubmitAfterCollect]_vars

\* C16 witness: a put_part call beyond the limit was accepted after one task
\* had completed and been collected, and the limit is reached again
C16_Witness ==
    /\ _executor
    /\ last = [op |-> "put_part", raised |-> FALSE]
    /\ Len(uploads) = concurrent_uploads + 1
    /\ Cardinality(_futures) = concurrent_uploads
    /\ Len(parts) = 1

\* A pool thread's step: one running upload task finishes
WorkerStep ==
    \E f \in DOMAIN uploads :
        uploads[f].state = "running" /\ uploads'[f].state # "running"

\* A step of the thread that calls put_part and close
CoordinatorStep ==
    \/ nputs' # nputs
    \/ wpc # "idle"
    \/ wpc' # wpc
    \/ _closed' # _closed

\* C17: a pool thread's step leaves the receipt list and the outstanding set
\* unchanged; only steps of put_part and close (with their _collect_parts)
\* change them.
C17_WorkersLeaveListsAlone ==
    [][/\ WorkerStep => (parts' = parts /\ _futures' = _futures)
       /\ (parts' # parts \/ _futures' # _futures) =>
             (CoordinatorStep /\ ~WorkerStep)]_vars

\* C17 witness: a task has finished successfully and is still in the
\* outstanding set with its receipt not yet in the receipt list
C17_Witness ==
    \E f \in _futures :
        /\ uploads[f].state = "ok"
        /\ \A i \in DOMAIN parts : parts[i] # Receipt(f)

\* C18: the S3 reader and the local reader over an object of the same size
\* have the same chunk_size and the same part count, part n is the byte range
\* [n * chunk_size, min((n + 1) * chunk_size, size)) in both, and both yield
\* the same set of Parts.
C18_ReadersAgree ==
    /\ (rpc # "new" /\ lpc # "new") =>
          /\ s3it.chunk_size = localit.chunk_size
          /\ s3it.number_of_parts = localit.number_of_parts
          /\ \A n \in 0 .. (localit.number_of_parts - 1) :
                /\ S3GetPart(n) = LocalGetPart(n)
                /\ LocalGetPart(n) =
                      Part(n, n * localit.chunk_size,
                           Min((n + 1) * localit.chunk_size, size))
    /\ (rpc = "done" /\ lpc = "done") => Range(yielded) = Range(lyielded)

\* The zero-based part number the caller passed in its k-th put_part call
NumberOfCall(k) == order[((k - 1) % part_count) + 1]

\* C19: when close issues complete_multipart_upload and every upload
\* succeeded, the list it sends holds exactly one receipt per put_part call
\* made so far, with PartNumber = Part.number + 1 and the ETag of that call's
\* upload: none lost, none twice.
C19_ReceiptConservation ==
    [][(Len(complete_log') > Len(complete_log) /\ FailedUploads' = {}) =>
          LET ps == complete_log'[Len(complete_log')]
          IN  /\ Len(ps) = nputs
              /\ \A k \in 1 .. nputs :
                    Cardinality({i \in DOMAIN ps : ps[i].ETag = k}) = 1
              /\ \A i \in DOMAIN ps :
                    /\ ps[i].ETag \in 1 .. nputs
                    /\ ps[i].PartNumber = NumberOfCall(ps[i].ETag) + 1]_vars

\* C19 witness: with an executor, more put_part calls than the concurrency
\* limit were made, all uploads succeeded, and close has sent the list
C19_Witness ==
    /\ _executor
    /\ complete_log # <<>>
    /\ FailedUploads = {}
    /\ Len(complete_log[1]) > concurrent_uploads
    /\ nputs = Len(complete_log[1])

====
